---- MODULE Spec2Model ----
(***************************************************************************)
(* A model of lrucache.py: LRUCache, a dictionary of key -> link combined  *)
(* with a circular doubly-linked list of links around an anchor link, and  *)
(* LRUTimeCache, which stores (expiry, value) pairs in an LRUCache and     *)
(* counts hits and misses.                                                 *)
(*                                                                         *)
(* Links are heap objects, modelled by their identities (numbers); the     *)
(* four slots of _LRUCacheLink are four functions from link identities to  *)
(* slot contents, each defined only on the links whose slot has been       *)
(* assigned.  A method is an operator from the object (and arguments) to a *)
(* record [self, ret, exc]: the object after the call, the value returned, *)
(* and the exception raised ("" when the call returns normally).           *)
(***************************************************************************)
EXTENDS Integers, Sequences, FiniteSets, TLC

\* LRUCache.__init__ refuses a size below this.
MinSize == 2
\* The largest size a cache is constructed with.
MaxSize == 3
\* Keys are 1..MaxKey.
MaxKey == 3
\* time.time() returns 0..MaxTime.
MaxTime == 1
\* An LRUTimeCache is asked at most MaxGets times between two clean() calls.
MaxGets == 2

\* The last clock reading where evictions are followed.
MaxLateTime == 2

Keys == 1..MaxKey
Values == {"a", "b"}
\* The default given to LRUCache.get.
Defaults == {"default"}
\* The ttl an LRUTimeCache is constructed with.
Ttls == {-1, 0, 1}
Sizes == MinSize..MaxSize

\* The key of the anchor link (class ANCHOR); no caller's key equals it.
ANCHOR == 0
\* The identity of the link that LRUCache.__init__ creates as self._anchor.
AnchorLink == 0
\* The identities a link object can have: more than a cache ever holds.
Links == 0..(MaxSize + 1)

None == "None"
NoExc == ""
KeyError == "KeyError"
ValueError == "ValueError"

Return(self, ret) == [self |-> self, ret |-> ret, exc |-> NoExc]
Raise(self, exc) == [self |-> self, ret |-> None, exc |-> exc]

\* obj.slot = val, for a slot of _LRUCacheLink.
SetSlot(slot, link, val) ==
    IF link \in DOMAIN slot THEN [slot EXCEPT ![link] = val] ELSE slot @@ (link :> val)

\* dict.pop(key) and dict[key] = val, on the dictionary d.
DictPop(d, key) == [k \in DOMAIN d \ {key} |-> d[k]]
DictSet(d, key, val) ==
    IF key \in DOMAIN d THEN [d EXCEPT ![key] = val] ELSE d @@ (key :> val)
EmptyDict == [k \in {} |-> AnchorLink]

----------------------------------------------------------------------------
(* Object lifetime.  A link that no reference reaches any more is freed by *)
(* the Python runtime; its identity can be given to a later link.          *)

\* The links the cache object refers to directly.
Roots(c) == {c._anchor} \cup {c._ldict[k] : k \in DOMAIN c._ldict}

\* The links that `from` refers to through left and right.
Referenced(c, from) ==
    {c.left[l] : l \in from \cap DOMAIN c.left}
        \cup {c.right[l] : l \in from \cap DOMAIN c.right}

RECURSIVE ReachableFrom(_, _)
ReachableFrom(c, seen) ==
    LET more == seen \cup Referenced(c, seen)
    IN  IF more = seen THEN seen ELSE ReachableFrom(c, more)

Reachable(c) == ReachableFrom(c, Roots(c))

\* The cache with every unreachable link freed.
Collect(c) ==
    LET live == Reachable(c)
    IN  [c EXCEPT !.left = [l \in DOMAIN c.left \cap live |-> c.left[l]],
                  !.right = [l \in DOMAIN c.right \cap live |-> c.right[l]],
                  !.key = [l \in DOMAIN c.key \cap live |-> c.key[l]],
                  !.obj = [l \in DOMAIN c.obj \cap live |-> c.obj[l]]]

\* The links in existence: reachable ones.
Allocated(c) == Reachable(c)

\* _LRUCacheLink(): a link with no slot assigned, of an identity not in use.
_LRUCacheLink(c) ==
    CHOOSE l \in Links \ Allocated(c) : \A m \in Links \ Allocated(c) : l <= m

----------------------------------------------------------------------------
(* class LRUCache *)

\* LRUCache.__init__, were a cache of one element accepted.
LRUCache_accepts_one(size) ==
    IF size < MinSize - 1
    THEN Raise(None, ValueError)
    ELSE Return([_size |-> size,
                 _anchor |-> AnchorLink,
                 _ldict |-> EmptyDict,
                 key |-> (AnchorLink :> ANCHOR),
                 left |-> (AnchorLink :> AnchorLink),
                 right |-> (AnchorLink :> AnchorLink),
                 obj |-> [l \in {} |-> None]], None)

\* LRUCache.__init__(size)
LRUCache(size) ==
    IF size < MinSize
    THEN Raise(None, ValueError)
    ELSE Return([_size |-> size,
                 _anchor |-> AnchorLink,
                 _ldict |-> EmptyDict,
                 key |-> (AnchorLink :> ANCHOR),
                 left |-> (AnchorLink :> AnchorLink),
                 right |-> (AnchorLink :> AnchorLink),
                 obj |-> [l \in {} |-> None]], None)

\* LRUCache.clean, were the anchor's right link left as it is.
clean_left_only(c) ==
    LET c1 == [c EXCEPT !._ldict = EmptyDict]
        c2 == [c1 EXCEPT !.left = SetSlot(c1.left, c1._anchor, c1._anchor)]
    IN  Return(Collect(c2), None)

\* LRUCache.clean()
clean(c) ==
    LET c1 == [c EXCEPT !._ldict = EmptyDict]
        c2 == [c1 EXCEPT !.left = SetSlot(c1.left, c1._anchor, c1._anchor)]
        c3 == [c2 EXCEPT !.right = SetSlot(c2.right, c2._anchor, c2._anchor)]
    IN  Return(Collect(c3), None)

\* LRUCache.__len__()
__len__(c) == Cardinality(DOMAIN c._ldict)

\* _link_item_as_top, were the left link of the former top not set to item.
_link_item_as_top_one_way(c, item) ==
    LET anchor == c._anchor
        anchor_r == c.right[anchor]
        c1 == [c EXCEPT !.left = SetSlot(c.left, item, anchor)]
        c2 == [c1 EXCEPT !.right = SetSlot(c1.right, item, anchor_r)]
        c4 == [c2 EXCEPT !.right = SetSlot(c2.right, anchor, item)]
    IN  c4

\* LRUCache._link_item_as_top(item)
_link_item_as_top(c, item) ==
    LET anchor == c._anchor
        anchor_r == c.right[anchor]
        c1 == [c EXCEPT !.left = SetSlot(c.left, item, anchor)]
        c2 == [c1 EXCEPT !.right = SetSlot(c1.right, item, anchor_r)]
        c3 == [c2 EXCEPT !.left = SetSlot(c2.left, anchor_r, item)]
        c4 == [c3 EXCEPT !.right = SetSlot(c3.right, anchor, item)]
    IN  c4

\* Unlink, were only the right link of the left neighbour repaired.
UnlinkOneSide(c, item) ==
    LET l_item == c.left[item]
        r_item == c.right[item]
    IN  [c EXCEPT !.right = SetSlot(c.right, l_item, r_item)]

\* The four assignments that take item out of the list (lines 81-84, 100-103).
Unlink(c, item) ==
    LET l_item == c.left[item]
        r_item == c.right[item]
        c1 == [c EXCEPT !.right = SetSlot(c.right, l_item, r_item)]
        c2 == [c1 EXCEPT !.left = SetSlot(c1.left, r_item, l_item)]
    IN  c2

\* _move_to_top, were the item left where it is.
_move_to_top_unmoved(c, key) ==
    IF key \notin DOMAIN c._ldict
    THEN Raise(c, KeyError)
    ELSE Return(c, c._ldict[key])

\* LRUCache._move_to_top(key); ret is the item.
_move_to_top(c, key) ==
    IF key \notin DOMAIN c._ldict
    THEN Raise(c, KeyError)
    ELSE LET item == c._ldict[key]
         IN  Return(_link_item_as_top(Unlink(c, item), item), item)

\* _remove_item, were the item looked up with the oldest link as a default
\* and the key removed from the dictionary only after the unlinking.
_remove_item_late_check(c, key) ==
    LET item == IF key \in DOMAIN c._ldict THEN c._ldict[key] ELSE c.left[c._anchor]
        c1 == Unlink(c, item)
    IN  IF key \notin DOMAIN c._ldict
        THEN Raise(c1, KeyError)
        ELSE Return([c1 EXCEPT !._ldict = DictPop(c._ldict, key)], item)

\* LRUCache._remove_item(key); ret is the item.
_remove_item(c, key) ==
    IF key \notin DOMAIN c._ldict
    THEN Raise(c, KeyError)
    ELSE LET item == c._ldict[key]
             c1 == [c EXCEPT !._ldict = DictPop(c._ldict, key)]
         IN  Return(Unlink(c1, item), item)

\* LRUCache.__getitem__(key)
__getitem__(c, key) ==
    LET r == _move_to_top(c, key)
    IN  IF r.exc # NoExc THEN r ELSE Return(r.self, r.self.obj[r.ret])

\* Overwrite, were the new object not stored in the item.
OverwriteKeepsOld(c, key, obj) == _move_to_top(c, key).self

\* LRUCache.__setitem__, lines 65-66: the key is in the cache.
Overwrite(c, key, obj) ==
    LET r == _move_to_top(c, key)
        item == r.ret
    IN  [r.self EXCEPT !.obj = SetSlot(r.self.obj, item, obj)]

\* Full, were the comparison > and not >=.
FullOffByOne(c) == __len__(c) > c._size

\* LRUCache.__setitem__, line 68: no room for one more link.
Full(c) == __len__(c) >= c._size

\* Victim, were the link with the earliest expiry taken (the objects stored
\* being the pairs of an LRUTimeCache).
VictimEarliestExpiry(c) ==
    LET items == {c._ldict[k] : k \in DOMAIN c._ldict}
    IN  c.key[CHOOSE l \in items : \A m \in items : c.obj[l][1] <= c.obj[m][1]]

\* Victim, were the link taken from the other side of the anchor.
VictimNewest(c) == c.key[c.right[c._anchor]]

\* LRUCache.__setitem__, line 70: the key of the link to reuse.
Victim(c) == c.key[c.left[c._anchor]]

\* __setitem__, were the key slot of a reused link left as it is.
__setitem__stale_key(c, key, obj) ==
    IF key \in DOMAIN c._ldict
    THEN Return(Overwrite(c, key, obj), None)
    ELSE LET full == Full(c)
             r == _remove_item(c, Victim(c))
             c0 == IF full THEN r.self ELSE c
             new_item == IF full THEN r.ret ELSE _LRUCacheLink(c)
             c1 == [c0 EXCEPT !.obj = SetSlot(c0.obj, new_item, obj)]
             c2 == IF full THEN c1 ELSE [c1 EXCEPT !.key = SetSlot(c1.key, new_item, key)]
             c3 == _link_item_as_top(c2, new_item)
             c4 == [c3 EXCEPT !._ldict = DictSet(c3._ldict, key, new_item)]
         IN  IF full /\ r.exc # NoExc THEN r ELSE Return(c4, None)

\* LRUCache.__setitem__(key, obj)
__setitem__(c, key, obj) ==
    IF key \in DOMAIN c._ldict
    THEN Return(Overwrite(c, key, obj), None)
    ELSE LET full == Full(c)
             r == _remove_item(c, Victim(c))
             c0 == IF full THEN r.self ELSE c
             new_item == IF full THEN r.ret ELSE _LRUCacheLink(c)
             c1 == [c0 EXCEPT !.obj = SetSlot(c0.obj, new_item, obj)]
             c2 == [c1 EXCEPT !.key = SetSlot(c1.key, new_item, key)]
             c3 == _link_item_as_top(c2, new_item)
             c4 == [c3 EXCEPT !._ldict = DictSet(c3._ldict, key, new_item)]
         IN  IF full /\ r.exc # NoExc THEN r ELSE Return(c4, None)

\* LRUCache.__delitem__ = _remove_item
__delitem__(c, key) == _remove_item(c, key)

\* The statement `del cache[key]`: the item __delitem__ returns is dropped.
DelStatement(c, key) ==
    LET r == __delitem__(c, key)
    IN  IF r.exc # NoExc THEN r ELSE Return(Collect(r.self), None)

\* LRUCache.__repr__(): the list all_items, before repr() formats it.
RECURSIVE ReprWalk(_, _, _, _)
ReprWalk(c, curr, all_items, fuel) ==
    IF c.key[curr] = ANCHOR \/ fuel = 0
    THEN all_items
    ELSE ReprWalk(c, c.left[curr], Append(all_items, <<c.key[curr], c.obj[curr]>>),
                  fuel - 1)

\* __repr__, were the list walked along the right links.
RECURSIVE ReprWalkRight(_, _, _, _)
ReprWalkRight(c, curr, all_items, fuel) ==
    IF c.key[curr] = ANCHOR \/ fuel = 0
    THEN all_items
    ELSE ReprWalkRight(c, c.right[curr],
                       Append(all_items, <<c.key[curr], c.obj[curr]>>), fuel - 1)

__repr__newest_first(c) ==
    ReprWalkRight(c, c.right[c._anchor], <<>>, Cardinality(Links))

__repr__(c) == ReprWalk(c, c.left[c._anchor], <<>>, Cardinality(Links))

\* LRUCache.has_key(key)
has_key(c, key) == key \in DOMAIN c._ldict

\* LRUCache.keys(), as a set: the order of a dictionary's keys is not defined.
keys(c) == DOMAIN c._ldict

\* LRUCache.dict_copy()
dict_copy(c) ==
    [k \in {c.key[c._ldict[j]] : j \in DOMAIN c._ldict} |->
        LET item == CHOOSE i \in {c._ldict[j] : j \in DOMAIN c._ldict} : c.key[i] = k
        IN  c.obj[item]]

\* LRUCache.pop(key)
pop(c, key) ==
    LET r == _remove_item(c, key)
    IN  IF r.exc # NoExc THEN r ELSE Return(Collect(r.self), r.self.obj[r.ret])

\* LRUCache.get, were the default stored under a key that is not there.
get_stores_default(c, key, default) ==
    IF key \in DOMAIN c._ldict
    THEN LET r == _move_to_top(c, key)
         IN  Return(r.self, r.self.obj[r.ret])
    ELSE Return(__setitem__(c, key, default).self, default)

\* LRUCache.get(key, default)
get(c, key, default) ==
    IF key \in DOMAIN c._ldict
    THEN LET r == _move_to_top(c, key)
         IN  Return(r.self, r.self.obj[r.ret])
    ELSE Return(c, default)

----------------------------------------------------------------------------
(* class LRUTimeCache; `time` is what time.time() returns during the call. *)

\* LRUTimeCache.__init__(size, ttl)
LRUTimeCache(size, ttl) ==
    LET r == LRUCache(size)
    IN  IF r.exc # NoExc
        THEN r
        ELSE Return([_lru_cache |-> r.self, _ttl |-> ttl, _hits |-> 0, _misses |-> 0],
                    None)

\* clean, were the misses not reset.
LRUTimeCache_clean_keeps_misses(t) ==
    Return([t EXCEPT !._lru_cache = clean(t._lru_cache).self, !._hits = 0], None)

\* LRUTimeCache.clean()
LRUTimeCache_clean(t) ==
    Return([t EXCEPT !._lru_cache = clean(t._lru_cache).self,
                     !._hits = 0,
                     !._misses = 0], None)

\* LRUTimeCache.stats()
stats(t) == <<t._hits, t._misses, __len__(t._lru_cache)>>

\* LRUTimeCache.put, were the time of the put stored without the ttl.
put_unstamped(t, key, obj, time) ==
    LET r == __setitem__(t._lru_cache, key, <<time, obj>>)
    IN  IF r.exc # NoExc
        THEN Raise([t EXCEPT !._lru_cache = r.self], r.exc)
        ELSE Return([t EXCEPT !._lru_cache = r.self], None)

\* LRUTimeCache.put(key, obj)
put(t, key, obj, time) ==
    LET r == __setitem__(t._lru_cache, key, <<time + t._ttl, obj>>)
    IN  IF r.exc # NoExc
        THEN Raise([t EXCEPT !._lru_cache = r.self], r.exc)
        ELSE Return([t EXCEPT !._lru_cache = r.self], None)

\* Expired, were the comparison turned around.
ExpiredTurned(obj, time) == obj[1] > time

\* Expired, were the comparison <= and not <.
ExpiredAtExpiry(obj, time) == obj[1] <= time

\* LRUTimeCache.get, line 203: the stored pair is past its expiry.
Expired(obj, time) == obj[1] < time

\* LRUTimeCache.get, were the whole store cleaned when the entry asked for is
\* found expired.
LRUTimeCache_get_sweeps(t, key, time) ==
    LET r == __getitem__(t._lru_cache, key)
        obj == r.ret
        d == clean(r.self)
    IN  IF r.exc # NoExc
        THEN Raise([t EXCEPT !._lru_cache = r.self, !._misses = @ + 1], r.exc)
        ELSE IF Expired(obj, time)
             THEN Raise([t EXCEPT !._lru_cache = d.self, !._misses = @ + 1], KeyError)
             ELSE Return([t EXCEPT !._lru_cache = r.self, !._hits = @ + 1], obj[2])

\* LRUTimeCache.get, were a miss on a key that is not stored not counted.
LRUTimeCache_get_uncounted(t, key, time) ==
    LET r == __getitem__(t._lru_cache, key)
        obj == r.ret
        d == DelStatement(r.self, key)
    IN  IF r.exc # NoExc
        THEN Raise([t EXCEPT !._lru_cache = r.self], r.exc)
        ELSE IF Expired(obj, time)
             THEN Raise([t EXCEPT !._lru_cache = d.self, !._misses = @ + 1], KeyError)
             ELSE Return([t EXCEPT !._lru_cache = r.self, !._hits = @ + 1], obj[2])

\* LRUTimeCache.get(key)
LRUTimeCache_get(t, key, time) ==
    LET r == __getitem__(t._lru_cache, key)
        obj == r.ret
        d == DelStatement(r.self, key)
    IN  IF r.exc # NoExc
        THEN Raise([t EXCEPT !._lru_cache = r.self, !._misses = @ + 1], r.exc)
        ELSE IF Expired(obj, time)
             THEN Raise([t EXCEPT !._lru_cache = d.self, !._misses = @ + 1], KeyError)
             ELSE Return([t EXCEPT !._lru_cache = r.self, !._hits = @ + 1], obj[2])

----------------------------------------------------------------------------
(* The state: an LRUCache object, or an LRUTimeCache object and the  *)
(* clock, driven by arbitrary callers.                                     *)

VARIABLES
    cache,      \* the LRUCache object, with the links it owns
    tcache,     \* the LRUTimeCache object
    now,        \* what time.time() returns
    call,       \* the last call made: method, arguments, and what the caller
                \* could observe just before it (has_key of its key, len, stats)
    outcome,    \* what the last call returned or raised
    recency,    \* the reference: <<key, value last put>> of the keys in the cache,
                \* in the order of their last successful put or get
    gets,       \* the get calls completed on tcache since it was made or cleaned
    fresh,      \* a second LRUCache, which never reuses a link, and the result
                \* of the last call on it
    threads,    \* the calls in progress on cache, one per thread
    lock        \* the callers' lock around cache: its holder, or that none is used

\* The variables that only the two-cache and the threaded runs change.
rest == <<fresh, threads, lock>>

vars == <<cache, tcache, now, call, outcome, recency, gets, fresh, threads, lock>>

\* seq without the pair of key.
Without(seq, key) == SelectSeq(seq, LAMBDA p : p[1] # key)

\* key has just been got: its pair, if any, becomes the last.
Touch(seq, key) == Without(seq, key) \o SelectSeq(seq, LAMBDA p : p[1] = key)

\* obj has just been put under key.
Stored(seq, key, obj) == Without(seq, key) \o << <<key, obj>> >>

\* seq restricted to the keys that are still in the cache.
Live(seq, c) == SelectSeq(seq, LAMBDA p : has_key(c, p[1]))

Called(op, args, c) ==
    [op |-> op, args |-> args,
     had |-> IF args = <<>> THEN FALSE ELSE has_key(c, args[1]),
     len |-> __len__(c)]

Outcome(r) == [ret |-> r.ret, exc |-> r.exc]

Init ==
    /\ \E size \in Sizes : cache = LRUCache(size).self
    /\ tcache = None
    /\ now = 0
    /\ call = Called("__init__", <<>>, cache)
    /\ outcome = Outcome(Return(None, None))
    /\ recency = <<>>
    /\ gets = 0
    /\ fresh = None
    /\ threads = None
    /\ lock = None

\* cache[key] = obj
SetItem(key, obj) ==
    LET r == __setitem__(cache, key, obj)
    IN  /\ cache' = r.self
        /\ call' = Called("__setitem__", <<key, obj>>, cache)
        /\ outcome' = Outcome(r)
        /\ recency' = Live(Stored(recency, key, obj), r.self)
        /\ UNCHANGED <<tcache, now, gets, rest>>

\* cache[key]
GetItem(key) ==
    LET r == __getitem__(cache, key)
    IN  /\ cache' = r.self
        /\ call' = Called("__getitem__", <<key>>, cache)
        /\ outcome' = Outcome(r)
        /\ recency' = Live(IF r.exc = NoExc THEN Touch(recency, key) ELSE recency, r.self)
        /\ UNCHANGED <<tcache, now, gets, rest>>

\* cache.get(key, default)
Get(key, default) ==
    LET r == get(cache, key, default)
    IN  /\ cache' = r.self
        /\ call' = Called("get", <<key, default>>, cache)
        /\ outcome' = Outcome(r)
        /\ recency' = Live(Touch(recency, key), r.self)
        /\ UNCHANGED <<tcache, now, gets, rest>>

\* del cache[key]
DelItem(key) ==
    LET r == DelStatement(cache, key)
    IN  /\ cache' = r.self
        /\ call' = Called("__delitem__", <<key>>, cache)
        /\ outcome' = Outcome(r)
        /\ recency' = Live(recency, r.self)
        /\ UNCHANGED <<tcache, now, gets, rest>>

\* cache.pop(key)
Pop(key) ==
    LET r == pop(cache, key)
    IN  /\ cache' = r.self
        /\ call' = Called("pop", <<key>>, cache)
        /\ outcome' = Outcome(r)
        /\ recency' = Live(recency, r.self)
        /\ UNCHANGED <<tcache, now, gets, rest>>

\* cache.clean()
Clean ==
    LET r == clean(cache)
    IN  /\ cache' = r.self
        /\ call' = Called("clean", <<>>, cache)
        /\ outcome' = Outcome(r)
        /\ recency' = Live(recency, r.self)
        /\ UNCHANGED <<tcache, now, gets, rest>>

Next ==
    \/ \E key \in Keys, obj \in Values : SetItem(key, obj)
    \/ \E key \in Keys : GetItem(key)
    \/ \E key \in Keys, default \in Defaults : Get(key, default)
    \/ \E key \in Keys : DelItem(key)
    \/ \E key \in Keys : Pop(key)
    \/ Clean

Spec == Init /\ [][Next]_vars

----------------------------------------------------------------------------
(* The LRUTimeCache driven by arbitrary callers, while time passes.        *)

TimeCalled(op, args, t) ==
    [op |-> op, args |-> args,
     had |-> IF args = <<>> THEN FALSE ELSE has_key(t._lru_cache, args[1]),
     len |-> __len__(t._lru_cache)]

TimeInit ==
    /\ \E ttl \in Ttls : tcache = LRUTimeCache(MinSize, ttl).self
    /\ cache = None
    /\ now = 0
    /\ call = TimeCalled("__init__", <<>>, tcache)
    /\ outcome = Outcome(Return(None, None))
    /\ recency = <<>>
    /\ gets = 0
    /\ fresh = None
    /\ threads = None
    /\ lock = None

\* tcache.put(key, obj)
TimePut(key, obj) ==
    LET r == put(tcache, key, obj, now)
    IN  /\ tcache' = r.self
        /\ call' = TimeCalled("put", <<key, obj>>, tcache)
        /\ outcome' = Outcome(r)
        /\ recency' = Live(Stored(recency, key, obj), r.self._lru_cache)
        /\ UNCHANGED <<cache, now, gets, rest>>

\* tcache.get(key)
TimeGet(key) ==
    LET r == LRUTimeCache_get(tcache, key, now)
    IN  /\ gets < MaxGets
        /\ tcache' = r.self
        /\ call' = TimeCalled("get", <<key>>, tcache)
        /\ outcome' = Outcome(r)
        /\ recency' = Live(Touch(recency, key), r.self._lru_cache)
        /\ gets' = gets + 1
        /\ UNCHANGED <<cache, now, rest>>

\* tcache.clean()
TimeClean ==
    LET r == LRUTimeCache_clean(tcache)
    IN  /\ tcache' = r.self
        /\ call' = TimeCalled("clean", <<>>, tcache)
        /\ outcome' = Outcome(r)
        /\ recency' = Live(recency, r.self._lru_cache)
        /\ gets' = 0
        /\ UNCHANGED <<cache, now, rest>>

\* Time passes between two calls.
Tick ==
    /\ now < MaxTime
    /\ now' = now + 1
    /\ UNCHANGED <<cache, tcache, call, outcome, recency, gets, rest>>

TimeNext ==
    \/ \E key \in Keys, obj \in Values : TimePut(key, obj)
    \/ \E key \in Keys : TimeGet(key)
    \/ TimeClean
    \/ Tick

TimeSpec == TimeInit /\ [][TimeNext]_vars

----------------------------------------------------------------------------
(* What a caller can observe of a cache, used to state the properties.     *)

\* The mapping a list of <<key, value>> pairs describes.
AsDict(seq) ==
    [k \in {seq[i][1] : i \in DOMAIN seq} |->
        seq[CHOOSE i \in DOMAIN seq : seq[i][1] = k][2]]

\* The keys of a list of pairs, in its order.
KeysOf(seq) == [i \in DOMAIN seq |-> seq[i][1]]

\* The value listed for key (key is listed).
ValueOf(seq, key) == seq[CHOOSE i \in DOMAIN seq : seq[i][1] = key][2]

\* The last call was `op` with first argument key.
CalledOn(c, op, key) == c.op = op /\ c.args # <<>> /\ c.args[1] = key

----------------------------------------------------------------------------
(* Properties of LRUCache, checked under Spec.                             *)

\* C1. Capacity bound: after every completed operation, the number of live
\* entries len(cache) is at least 0 and at most the size the cache was
\* constructed with (which is at least MinSize); the list holds as many
\* entries as the dictionary.
C1_CapacityBound ==
    /\ cache._size >= MinSize
    /\ 0 <= __len__(cache)
    /\ __len__(cache) <= cache._size
    /\ Len(__repr__(cache)) = __len__(cache)

\* A put of a new key into a full cache has completed and the cache is full.
C1_Witness ==
    /\ call.op = "__setitem__"
    /\ ~call.had
    /\ call.len = cache._size
    /\ __len__(cache) = cache._size
    /\ outcome.exc = NoExc

\* C2. Eviction removes exactly the least-recently-used entry: a put of an
\* absent key k with value v into a full cache removes the entry that was first
\* in the oldest-first listing and no other, keeps every other entry's key,
\* value and relative order, adds (k, v) as the most recently used, and leaves
\* len(cache) equal to the capacity.
C2_Evict(k, v) ==
    LET before == __repr__(cache)
        after == __repr__(cache')
    IN  (/\ CalledOn(call', "__setitem__", k)
         /\ call'.args[2] = v
         /\ ~has_key(cache, k)
         /\ __len__(cache) = cache._size)
        => /\ outcome'.exc = NoExc
           /\ after = Tail(before) \o << <<k, v>> >>
           /\ keys(cache') = (keys(cache) \ {before[1][1]}) \cup {k}
           /\ ~has_key(cache', before[1][1])
           /\ dict_copy(cache') = AsDict(after)
           /\ __len__(cache') = cache'._size
           /\ cache'._size = cache._size

C2_EvictsLeastRecentlyUsed ==
    [][\A k \in Keys, v \in Values : C2_Evict(k, v)]_vars

\* A put of a new key into a full cache of MaxSize entries has completed.
C2_Witness ==
    /\ call.op = "__setitem__"
    /\ ~call.had
    /\ call.len = cache._size
    /\ call.len >= MinSize
    /\ has_key(cache, call.args[1])
    /\ outcome.exc = NoExc

\* C3. Lookup touches: cache[key] and cache.get(key, default) on a present key
\* return the value last stored for the key and move its entry to the
\* most-recently-used position; the key set, all values, the size and the
\* relative order of the other entries stay as they were.
C3_Lookup(k) ==
    LET before == __repr__(cache)
        after == __repr__(cache')
    IN  (/\ CalledOn(call', "__getitem__", k) \/ CalledOn(call', "get", k)
         /\ has_key(cache, k))
        => /\ outcome'.exc = NoExc
           /\ outcome'.ret = ValueOf(recency, k)
           /\ after = Without(before, k) \o << <<k, ValueOf(recency, k)>> >>
           /\ keys(cache') = keys(cache)
           /\ dict_copy(cache') = dict_copy(cache)
           /\ __len__(cache') = __len__(cache)

C3_LookupTouches == [][\A k \in Keys : C3_Lookup(k)]_vars

\* A lookup found its key among three entries, and the key is now the newest
\* while a larger key is older: the listing is no longer in insertion order.
C3_Witness ==
    /\ call.op \in {"__getitem__", "get"}
    /\ call.had
    /\ call.len = 3
    /\ outcome.exc = NoExc
    /\ outcome.ret \in Values
    /\ KeysOf(__repr__(cache))[3] = call.args[1]

C5_Overwrite(k, v) ==
    LET before == __repr__(cache)
        after == __repr__(cache')
    IN  (/\ CalledOn(call', "__setitem__", k)
         /\ call'.args[2] = v
         /\ has_key(cache, k))
        => /\ outcome'.exc = NoExc
           /\ after = Without(before, k) \o << <<k, v>> >>
           /\ __len__(cache') = __len__(cache)
           /\ keys(cache') = keys(cache)
           /\ dict_copy(cache') = [dict_copy(cache) EXCEPT ![k] = v]
           /\ __getitem__(cache', k).exc = NoExc
           /\ __getitem__(cache', k).ret = v

C5_OverwritePreservesCount ==
    [][\A k \in Keys, v \in Values : C5_Overwrite(k, v)]_vars

\* A put on a present key of a full cache has completed; the cache is still
\* full, and the key, now the newest, holds "b" while an older key holds "a".
C5_Witness ==
    /\ call.op = "__setitem__"
    /\ call.had
    /\ call.len = cache._size
    /\ __len__(cache) = cache._size
    /\ call.args[2] = "b"
    /\ __repr__(cache)[__len__(cache)] = <<call.args[1], "b">>
    /\ __repr__(cache)[1][2] = "a"

\* C6. Delete removes only its target: del cache[k] and cache.pop(k) on a
\* present key remove exactly k's entry, pop returns the value stored for k,
\* len(cache) decreases by one, the other entries keep their values and
\* relative order, and k is absent afterwards: a repeated delete raises
\* KeyError.
C6_Delete(k) ==
    LET before == __repr__(cache)
        after == __repr__(cache')
    IN  (/\ CalledOn(call', "__delitem__", k) \/ CalledOn(call', "pop", k)
         /\ has_key(cache, k))
        => /\ outcome'.exc = NoExc
           /\ call'.op = "pop" => outcome'.ret = ValueOf(recency, k)
           /\ after = Without(before, k)
           /\ __len__(cache') = __len__(cache) - 1
           /\ keys(cache') = keys(cache) \ {k}
           /\ dict_copy(cache') = AsDict(after)
           /\ ~has_key(cache', k)
           /\ DelStatement(cache', k).exc = KeyError
           /\ pop(cache', k).exc = KeyError

C6_DeleteRemovesOnlyTarget == [][\A k \in Keys : C6_Delete(k)]_vars

\* A pop of a present key of a cache of three entries has returned its value
\* and two entries are left.
C6_Witness ==
    /\ call.op = "pop"
    /\ call.had
    /\ call.len = 3
    /\ outcome.exc = NoExc
    /\ outcome.ret \in Values
    /\ __len__(cache) = 2
    /\ ~has_key(cache, call.args[1])

\* C7. Failed store operations do not mutate: cache[key], del cache[key] and
\* cache.pop(key) with key absent raise KeyError and leave the key set, the
\* values, the size and every link of the list as they were.
C7_Failed(k) ==
    (/\ \/ CalledOn(call', "__getitem__", k)
        \/ CalledOn(call', "__delitem__", k)
        \/ CalledOn(call', "pop", k)
     /\ ~has_key(cache, k))
    => /\ outcome'.exc = KeyError
       /\ cache' = cache
       /\ recency' = recency

C7_FailedOperationsDoNotMutate == [][\A k \in Keys : C7_Failed(k)]_vars

\* A pop of an absent key has raised KeyError on a cache that holds entries.
C7_Witness ==
    /\ call.op = "pop"
    /\ ~call.had
    /\ call.len >= MinSize
    /\ outcome.exc = KeyError
    /\ __len__(cache) = call.len

----------------------------------------------------------------------------
(* Properties of LRUTimeCache, checked under TimeSpec.                     *)

\* The step is a call on tcache: the clock does not move during a call.
IsCall == now' = now

\* The (expiry, value) pair stored under key.
Pair(t, key) == dict_copy(t._lru_cache)[key]

\* C8. Expired entries are never served: get(k) on a present entry whose
\* expiry is less than the current time raises KeyError and returns nothing,
\* deletes the entry from the store (the size decreases by one), adds one to
\* the misses and leaves the hits as they were; with ttl = -1, put(1, x) then
\* get(1) gives stats() = (0, 1, 0).
C8_Expired(k) ==
    LET before == __repr__(tcache._lru_cache)
        after == __repr__(tcache'._lru_cache)
    IN  (/\ IsCall
         /\ CalledOn(call', "get", k)
         /\ has_key(tcache._lru_cache, k)
         /\ Pair(tcache, k)[1] < now)
        => /\ outcome'.exc = KeyError
           /\ outcome'.ret = None
           /\ ~has_key(tcache'._lru_cache, k)
           /\ after = Without(before, k)
           /\ __len__(tcache'._lru_cache) = __len__(tcache._lru_cache) - 1
           /\ tcache'._misses = tcache._misses + 1
           /\ tcache'._hits = tcache._hits
           /\ (tcache._ttl = -1 /\ stats(tcache) = <<0, 0, 1>>)
                  => stats(tcache') = <<0, 1, 0>>

C8_ExpiredNeverServed == [][\A k \in Keys : C8_Expired(k)]_vars

\* With ttl = -1, one entry was put and then asked for: KeyError, and the
\* stats are (0, 1, 0).
C8_Witness ==
    /\ tcache._ttl = -1
    /\ call.op = "get"
    /\ call.had
    /\ call.len = 1
    /\ outcome.exc = KeyError
    /\ stats(tcache) = <<0, 1, 0>>

\* C9. TTL hit: get(k) on a present entry whose expiry is not less than the
\* current time (equal included) returns the value that was put, adds one to
\* the hits, leaves the misses and the size as they were, and makes k the
\* most recently used entry of the store.
C9_Hit(k) ==
    LET before == __repr__(tcache._lru_cache)
        after == __repr__(tcache'._lru_cache)
    IN  (/\ IsCall
         /\ CalledOn(call', "get", k)
         /\ has_key(tcache._lru_cache, k)
         /\ Pair(tcache, k)[1] >= now)
        => /\ outcome'.exc = NoExc
           /\ outcome'.ret = ValueOf(recency, k)
           /\ outcome'.ret = Pair(tcache, k)[2]
           /\ tcache'._hits = tcache._hits + 1
           /\ tcache'._misses = tcache._misses
           /\ __len__(tcache'._lru_cache) = __len__(tcache._lru_cache)
           /\ after = Without(before, k) \o << <<k, Pair(tcache, k)>> >>
           /\ after[Len(after)][1] = k

C9_TtlHit == [][\A k \in Keys : C9_Hit(k)]_vars

\* A get at the very time of the expiry has returned "b"; the key is the
\* newest of two entries.
C9_Witness ==
    /\ call.op = "get"
    /\ call.had
    /\ outcome.exc = NoExc
    /\ outcome.ret = "b"
    /\ __len__(tcache._lru_cache) = 2
    /\ __repr__(tcache._lru_cache)[2] = <<call.args[1], <<now, "b">> >>
    /\ tcache._hits = 1

\* C10. Hit/miss accounting: hits + misses is the number of get calls
\* completed since construction or the last clean(); each get changes exactly
\* one of the two counters, by exactly one; put changes neither; clean() sets
\* both to zero and empties the store, so that stats() = (0, 0, 0).
C10_Counted == tcache._hits + tcache._misses = gets

C10_Step ==
    IsCall =>
        /\ call'.op = "get" =>
              \/ tcache'._hits = tcache._hits + 1 /\ tcache'._misses = tcache._misses
              \/ tcache'._hits = tcache._hits /\ tcache'._misses = tcache._misses + 1
        /\ call'.op = "put" =>
              tcache'._hits = tcache._hits /\ tcache'._misses = tcache._misses
        /\ call'.op = "clean" =>
              /\ stats(tcache') = <<0, 0, 0>>
              /\ __repr__(tcache'._lru_cache) = <<>>
              /\ gets' = 0

C10_HitMissAccounting == []C10_Counted /\ [][C10_Step]_vars

\* Two gets have completed since construction or the last clean(), one a hit
\* and one a miss.
C10_Witness ==
    /\ call.op = "get"
    /\ gets = 2
    /\ tcache._hits = 1
    /\ tcache._misses = 1

----------------------------------------------------------------------------
(* Construction: no object exists at first; a caller constructs an         *)
(* LRUCache or an LRUTimeCache with any size, and on success puts into it. *)

\* The sizes a constructor is called with.
CtorSizes == 0..MaxSize

\* What a caller's variable holds while no object has been assigned to it.
Absent == [absent |-> TRUE]

\* No object has been constructed: nothing was called yet, or the constructor
\* raised.
NoObject == call.op = "start" \/ outcome.exc = ValueError

HasCache == ~NoObject /\ call.op \in {"__init__", "__setitem__"}

HasTimeCache == ~NoObject /\ call.op \in {"LRUTimeCache.__init__", "put"}

CtorInit ==
    /\ cache = Absent
    /\ tcache = Absent
    /\ now = 0
    /\ call = [op |-> "start", args |-> <<>>, had |-> FALSE, len |-> 0]
    /\ outcome = Outcome(Return(None, None))
    /\ recency = <<>>
    /\ gets = 0
    /\ fresh = None
    /\ threads = None
    /\ lock = None

\* cache = LRUCache(size)
Construct(size) ==
    LET r == LRUCache(size)
    IN  /\ NoObject
        /\ cache' = IF r.exc # NoExc THEN cache ELSE r.self
        /\ call' = [op |-> "__init__", args |-> <<size>>, had |-> FALSE, len |-> 0]
        /\ outcome' = Outcome(r)
        /\ UNCHANGED <<tcache, now, recency, gets, rest>>

\* tcache = LRUTimeCache(size, ttl)
ConstructTime(size, ttl) ==
    LET r == LRUTimeCache(size, ttl)
    IN  /\ NoObject
        /\ tcache' = IF r.exc # NoExc THEN tcache ELSE r.self
        /\ call' = [op |-> "LRUTimeCache.__init__", args |-> <<size, ttl>>,
                    had |-> FALSE, len |-> 0]
        /\ outcome' = Outcome(r)
        /\ UNCHANGED <<cache, now, recency, gets, rest>>

CtorNext ==
    \/ \E size \in CtorSizes : Construct(size)
    \/ \E size \in CtorSizes, ttl \in Ttls : ConstructTime(size, ttl)
    \/ HasCache /\ \E key \in Keys, obj \in Values : SetItem(key, obj)
    \/ HasTimeCache /\ \E key \in Keys, obj \in Values : TimePut(key, obj)

CtorSpec == CtorInit /\ [][CtorNext]_vars

\* The cache c is as LRUCache.__init__ leaves it: empty, of the given size, the
\* anchor linked to itself on both sides.
EmptyCache(c, size) ==
    /\ c._size = size
    /\ __len__(c) = 0
    /\ keys(c) = {}
    /\ __repr__(c) = <<>>
    /\ c.left[c._anchor] = c._anchor
    /\ c.right[c._anchor] = c._anchor
    /\ c.key[c._anchor] = ANCHOR
    /\ Reachable(c) = {c._anchor}

\* C11. Construction guard: LRUCache(size), and LRUTimeCache(size, ttl) which
\* builds one, raise ValueError and yield no cache when size < 2, in particular
\* for 0 and 1; with any size >= 2 they succeed and yield an empty cache (len 0,
\* the anchor linked to itself on both sides).
C11_Step ==
    /\ call'.op = "__init__" =>
          IF call'.args[1] < 2
          THEN outcome'.exc = ValueError /\ cache' = Absent /\ tcache' = Absent
          ELSE outcome'.exc = NoExc /\ EmptyCache(cache', call'.args[1])
    /\ call'.op = "LRUTimeCache.__init__" =>
          IF call'.args[1] < 2
          THEN outcome'.exc = ValueError /\ tcache' = Absent /\ cache' = Absent
          ELSE /\ outcome'.exc = NoExc
               /\ EmptyCache(tcache'._lru_cache, call'.args[1])
               /\ tcache'._ttl = call'.args[2]
               /\ stats(tcache') = <<0, 0, 0>>

C11_ConstructionGuard == [][C11_Step]_vars

\* LRUTimeCache(1, ttl) has raised ValueError: there is still no object.
C11_Witness ==
    /\ call.op = "LRUTimeCache.__init__"
    /\ call.args[1] = 1
    /\ outcome.exc = ValueError
    /\ cache = Absent
    /\ tcache = Absent

----------------------------------------------------------------------------
(* The LRUCache with its reading methods called between the others.        *)

\* cache.has_key(key)
HasKey(key) ==
    LET r == Return(cache, has_key(cache, key))
    IN  /\ cache' = r.self
        /\ call' = Called("has_key", <<key>>, cache)
        /\ outcome' = Outcome(r)
        /\ recency' = Live(recency, r.self)
        /\ UNCHANGED <<tcache, now, gets, rest>>

\* len(cache)
Len_ ==
    LET r == Return(cache, __len__(cache))
    IN  /\ cache' = r.self
        /\ call' = Called("__len__", <<>>, cache)
        /\ outcome' = Outcome(r)
        /\ recency' = Live(recency, r.self)
        /\ UNCHANGED <<tcache, now, gets, rest>>

ReadNext ==
    \/ \E key \in Keys, obj \in Values : SetItem(key, obj)
    \/ \E key \in Keys, default \in Defaults : Get(key, default)
    \/ \E key \in Keys : HasKey(key)
    \/ Len_

ReadSpec == Init /\ [][ReadNext]_vars

\* The call left the key set, the stored values, the size and the order of the
\* cache as they were; the whole object, links included, is as it was.
Unmutated ==
    /\ keys(cache') = keys(cache)
    /\ dict_copy(cache') = dict_copy(cache)
    /\ __len__(cache') = __len__(cache)
    /\ __repr__(cache') = __repr__(cache)
    /\ cache' = cache

\* C12. Non-mutating reads: get(key, default) with key absent returns default,
\* has_key(key) returns whether key is stored and len(cache) the number of keys
\* stored, and none of the three changes the key set, the stored values, the
\* size or the recency order; has_key of a stored key does not move it.
C12_Step ==
    /\ call'.op = "get" /\ ~call'.had =>
          outcome'.exc = NoExc /\ outcome'.ret = call'.args[2] /\ Unmutated
    /\ call'.op = "has_key" =>
          /\ outcome'.exc = NoExc
          /\ outcome'.ret = \E i \in 1..Len(recency) : recency[i][1] = call'.args[1]
          /\ Unmutated
    /\ call'.op = "__len__" =>
          outcome'.exc = NoExc /\ outcome'.ret = Len(recency) /\ Unmutated

C12_NonMutatingReads == [][C12_Step]_vars

\* has_key(k) has answered True for the least recently used of three keys,
\* which is still the first of the listing.
C12_Witness ==
    /\ call.op = "has_key"
    /\ outcome.ret = TRUE
    /\ __len__(cache) = 3
    /\ __repr__(cache)[1][1] = call.args[1]

----------------------------------------------------------------------------

\* C13. Clear resets to a fresh store: after clean() on an LRUCache in any
\* reachable state len is 0, no key is stored, the anchor's left and right
\* links are the anchor, no link that was linked before is reachable, and the
\* object is in every slot the one LRUCache(size) constructs, so every
\* sequence of calls that follows gives what it gives on a new cache of the
\* same size.
C13_Step ==
    call'.op = "clean" =>
        /\ outcome'.exc = NoExc
        /\ __len__(cache') = 0
        /\ keys(cache') = {}
        /\ __repr__(cache') = <<>>
        /\ cache'.left[cache'._anchor] = cache'._anchor
        /\ cache'.right[cache'._anchor] = cache'._anchor
        /\ Reachable(cache') \cap (Reachable(cache) \ {cache._anchor}) = {}
        /\ cache' = LRUCache(cache._size).self

C13_ClearResets == [][C13_Step]_vars

\* clean() has emptied a cache that held three keys.
C13_Witness ==
    /\ call.op = "clean"
    /\ call.len = 3
    /\ __len__(cache) = 0
    /\ cache = LRUCache(3).self

----------------------------------------------------------------------------

\* The links met from curr along the slot `side` (left or right) until the
\* anchor is met again.
RECURSIVE Walk(_, _, _, _, _)
Walk(c, side, curr, seen, fuel) ==
    IF curr = c._anchor \/ curr \notin DOMAIN side \/ fuel = 0
    THEN seen
    ELSE Walk(c, side, side[curr], Append(seen, curr), fuel - 1)

RightWalk(c) == Walk(c, c.right, c.right[c._anchor], <<>>, Cardinality(Links))

LeftWalk(c) == Walk(c, c.left, c.left[c._anchor], <<>>, Cardinality(Links))

Reverse(seq) == [i \in 1..Len(seq) |-> seq[Len(seq) + 1 - i]]

\* The ring of c: the anchor and the links met walking right from it.
Ring(c) == {c._anchor} \cup {RightWalk(c)[i] : i \in 1..Len(RightWalk(c))}

\* The dictionary and the ring of c agree.
MapRingAgree(c) ==
    LET walk == RightWalk(c)
        last == IF walk = <<>> THEN c._anchor ELSE walk[Len(walk)]
    IN  /\ c.key[c._anchor] = ANCHOR
        /\ c.right[last] = c._anchor
        /\ \A i, j \in 1..Len(walk) : i # j => walk[i] # walk[j]
        /\ \A i \in 1..Len(walk) : c.key[walk[i]] # ANCHOR
        /\ \A i, j \in 1..Len(walk) : i # j => c.key[walk[i]] # c.key[walk[j]]
        /\ {c.key[walk[i]] : i \in 1..Len(walk)} = DOMAIN c._ldict
        /\ Len(walk) = __len__(c)
        /\ \A k \in DOMAIN c._ldict :
              c._ldict[k] \in Ring(c) \ {c._anchor} /\ c.key[c._ldict[k]] = k
        /\ \A n \in Ring(c) :
              /\ n \in DOMAIN c.left /\ n \in DOMAIN c.right
              /\ c.left[n] \in Ring(c) /\ c.right[n] \in Ring(c)
              /\ c.right[c.left[n]] = n
              /\ c.left[c.right[n]] = n
        /\ LeftWalk(c) = Reverse(walk)

\* C14. Map/ring agreement: in every reachable state of an LRUCache the keys of
\* _ldict are exactly the keys of the non-anchor links met walking the ring from
\* the anchor; the ring holds the anchor once and each key once; each entry of
\* _ldict is the link carrying that key; left and right are inverse of each
\* other on the ring, so the walk to the left is the walk to the right reversed.
C14_MapRingAgreement == MapRingAgree(cache)

\* cache[k] has moved a key to the top of three: the first link met walking
\* right and the last met walking left carry k.
C14_Witness ==
    /\ call.op = "__getitem__"
    /\ outcome.exc = NoExc
    /\ Len(RightWalk(cache)) = 3
    /\ cache.key[RightWalk(cache)[1]] = call.args[1]
    /\ cache.key[LeftWalk(cache)[3]] = call.args[1]

----------------------------------------------------------------------------

\* C15. TTL put stamps a fresh expiry: put(k, v) stores under k the pair
\* (clock reading of the put + ttl, v), whether k was absent, live or expired
\* and whatever the sign of ttl; no other step changes the pair of a key that
\* stays in the store, so every stored pair carries the time of the most recent
\* put of its key plus ttl, and the value of that put.
C15_Step ==
    /\ \A k \in Keys :
          /\ (IsCall /\ CalledOn(call', "put", k)) =>
                /\ outcome'.exc = NoExc
                /\ has_key(tcache'._lru_cache, k)
                /\ Pair(tcache', k) = <<now + tcache._ttl, call'.args[2]>>
          /\ (~(IsCall /\ CalledOn(call', "put", k)) /\ has_key(tcache'._lru_cache, k)) =>
                /\ has_key(tcache._lru_cache, k)
                /\ Pair(tcache', k) = Pair(tcache, k)
    /\ \A k \in keys(tcache'._lru_cache) :
          /\ Pair(tcache', k)[1] - tcache'._ttl \in 0..now'
          /\ Pair(tcache', k)[2] = ValueOf(recency', k)
    /\ tcache'._ttl = tcache._ttl

C15_PutStampsExpiry == [][C15_Step]_vars

\* With ttl = -1 and the clock at 1, put(k, "b") on a key that was stored, and
\* so expired, has left the pair (0, "b") under k.
C15_Witness ==
    /\ tcache._ttl = -1
    /\ now = 1
    /\ call.op = "put"
    /\ call.had
    /\ call.args[2] = "b"
    /\ Pair(tcache, call.args[1]) = <<0, "b">>

----------------------------------------------------------------------------

\* The call of this step may remove the entry of key j: it is get(j), a put of
\* a key that is not stored into a full store, or clean().
MayRemove(j) ==
    /\ IsCall
    /\ \/ CalledOn(call', "get", j)
       \/ call'.op = "clean"
       \/ /\ call'.op = "put"
          /\ ~call'.had
          /\ call'.len = tcache._lru_cache._size

\* C16. Lazy expiry only: the passage of time changes nothing in the
\* LRUTimeCache; an entry, expired or not, stays in the store and in the size
\* that stats() reports until a get of its own key (which removes it only if it
\* is expired), a put of a new key into a full store, or clean(); get and put
\* of other stored keys do not remove it.
C16_Step ==
    /\ ~IsCall => tcache' = tcache /\ stats(tcache') = stats(tcache)
    /\ \A j \in keys(tcache._lru_cache) :
          /\ ~has_key(tcache'._lru_cache, j) => MayRemove(j)
          /\ (~has_key(tcache'._lru_cache, j) /\ CalledOn(call', "get", j)) =>
                Expired(Pair(tcache, j), now)
    /\ stats(tcache')[3] = Cardinality(keys(tcache'._lru_cache))
    /\ stats(tcache')[3] = Len(recency')

C16_LazyExpiryOnly == [][C16_Step]_vars

\* A get of one key was a hit while the other stored entry is expired: the
\* expired entry is still stored and stats() counts two.
C16_Witness ==
    /\ call.op = "get"
    /\ outcome.exc = NoExc
    /\ stats(tcache)[3] = 2
    /\ \E j \in keys(tcache._lru_cache) :
          j # call.args[1] /\ Expired(Pair(tcache, j), now)

----------------------------------------------------------------------------

\* The call of this step is get(k) on a stored entry that is past its expiry.
ExpiredGet ==
    /\ call'.op = "get"
    /\ call'.had
    /\ Expired(Pair(tcache, call'.args[1]), now)

\* C17, as stated. Failure atomicity of every operation: an operation that
\* fails leaves the stored entries, the recency order and the hits and misses
\* counters as they were before the call, except LRUTimeCache.get on an
\* expired entry, which deletes that entry.
C17_AsStated ==
    [][(IsCall /\ outcome'.exc # NoExc /\ ~ExpiredGet) => tcache' = tcache]_vars

\* The methods of the LRUCache c that fail on a key that is not stored raise
\* KeyError and leave c as it was.
StoreFailuresKeep(c, key) ==
    \A r \in {__getitem__(c, key), DelStatement(c, key), pop(c, key)} :
        r.exc = KeyError /\ r.self = c /\ r.ret = None

\* C17. Failure atomicity: __getitem__, del and pop of the wrapped LRUCache on
\* a key that is not stored raise KeyError and leave it as it was, and the
\* constructors given a size below 2 raise ValueError and make nothing; put
\* and clean of the LRUTimeCache never fail; a failing LRUTimeCache.get always
\* adds one to misses and leaves hits as they were: on a key that is not
\* stored nothing else changes, on an expired entry that entry is deleted and
\* the other entries keep their values and their order.
C17_Step ==
    /\ \A key \in Keys \ keys(tcache._lru_cache) :
          StoreFailuresKeep(tcache._lru_cache, key)
    /\ \A size \in 0..(MinSize - 1) :
          /\ LRUCache(size) = Raise(None, ValueError)
          /\ LRUTimeCache(size, tcache._ttl) = Raise(None, ValueError)
    /\ (IsCall /\ outcome'.exc # NoExc) =>
          /\ call'.op = "get"
          /\ outcome'.exc = KeyError
          /\ outcome'.ret = None
          /\ tcache'._misses = tcache._misses + 1
          /\ tcache'._hits = tcache._hits
          /\ tcache'._ttl = tcache._ttl
          /\ IF call'.had
             THEN /\ ExpiredGet
                  /\ tcache'._lru_cache = DelStatement(tcache._lru_cache, call'.args[1]).self
                  /\ __repr__(tcache'._lru_cache)
                        = Without(__repr__(tcache._lru_cache), call'.args[1])
             ELSE tcache'._lru_cache = tcache._lru_cache

C17_FailureAtomicity == [][C17_Step]_vars

\* get(k) of a key that is not stored has raised KeyError: misses is 1, and the
\* two stored entries are still there.
C17_Witness ==
    /\ call.op = "get"
    /\ ~call.had
    /\ outcome.exc = KeyError
    /\ call.len = 2
    /\ stats(tcache) = <<0, 1, 2>>

----------------------------------------------------------------------------
(* The LRUTimeCache filled beyond its size over a longer time, the callers *)
(* noting the clock and the least recently used entry before each call.    *)

Observed(op, args, t, time) ==
    [op |-> op, args |-> args, time |-> time,
     had |-> IF args = <<>> THEN FALSE ELSE has_key(t._lru_cache, args[1]),
     len |-> __len__(t._lru_cache),
     oldest |-> IF __len__(t._lru_cache) = 0
                THEN <<>>
                ELSE <<__repr__(t._lru_cache)[1]>>]

EvictInit ==
    /\ \E ttl \in Ttls : tcache = LRUTimeCache(MinSize, ttl).self
    /\ cache = None
    /\ now = 0
    /\ call = Observed("__init__", <<>>, tcache, now)
    /\ outcome = Outcome(Return(None, None))
    /\ recency = <<>>
    /\ gets = 0
    /\ fresh = None
    /\ threads = None
    /\ lock = None

\* tcache.put(key, obj)
EvictPut(key, obj) ==
    LET r == put(tcache, key, obj, now)
    IN  /\ tcache' = r.self
        /\ call' = Observed("put", <<key, obj>>, tcache, now)
        /\ outcome' = Outcome(r)
        /\ recency' = Live(Stored(recency, key, obj), r.self._lru_cache)
        /\ UNCHANGED <<cache, now, gets, rest>>

\* tcache.get(key)
EvictGet(key) ==
    LET r == LRUTimeCache_get(tcache, key, now)
    IN  /\ gets < MaxGets
        /\ tcache' = r.self
        /\ call' = Observed("get", <<key>>, tcache, now)
        /\ outcome' = Outcome(r)
        /\ recency' = Live(Touch(recency, key), r.self._lru_cache)
        /\ gets' = gets + 1
        /\ UNCHANGED <<cache, now, rest>>

\* Time passes between two calls.
LateTick ==
    /\ now < MaxLateTime
    /\ now' = now + 1
    /\ UNCHANGED <<cache, tcache, call, outcome, recency, gets, rest>>

EvictNext ==
    \/ \E key \in Keys : EvictPut(key, "a")
    \/ \E key \in Keys : EvictGet(key)
    \/ LateTick

EvictSpec == EvictInit /\ [][EvictNext]_vars

\* C18. TTL eviction ignores expiry: put(k, v) with k not stored and the store
\* full removes the least recently used entry, the first of the listing,
\* whatever the expiries stored; every other entry, expired or not, stays in
\* its place and (k, (now + ttl, v)) becomes the newest.
C18_Evict(k) ==
    LET before == __repr__(tcache._lru_cache)
        after == __repr__(tcache'._lru_cache)
    IN  (/\ IsCall
         /\ CalledOn(call', "put", k)
         /\ ~has_key(tcache._lru_cache, k)
         /\ __len__(tcache._lru_cache) = tcache._lru_cache._size)
        => /\ call'.oldest = <<before[1]>>
           /\ call'.time = now
           /\ ~has_key(tcache'._lru_cache, before[1][1])
           /\ after = Tail(before) \o << <<k, <<now + tcache._ttl, call'.args[2]>> >> >>
           /\ __len__(tcache'._lru_cache) = tcache._lru_cache._size

C18_EvictionIgnoresExpiry == [][\A k \in Keys : C18_Evict(k)]_vars

\* A put of a new key into the full store has evicted an entry that was not
\* expired at the time of the put, while the entry it left in the store was.
C18_Witness ==
    /\ call.op = "put"
    /\ ~call.had
    /\ call.len = tcache._lru_cache._size
    /\ ~Expired(call.oldest[1][2], call.time)
    /\ ~has_key(tcache._lru_cache, call.oldest[1][1])
    /\ \E j \in keys(tcache._lru_cache) : Expired(Pair(tcache, j), call.time)

----------------------------------------------------------------------------
(* Two caches given the same calls: `cache`, and `fresh`, whose __setitem__ *)
(* takes a new link where line 70 reuses the removed one.                   *)

\* LRUCache.__setitem__ with `new_item = _LRUCacheLink()` on both branches of
\* line 68: the least recently used item is removed and dropped.
__setitem__allocating(c, key, obj) ==
    IF key \in DOMAIN c._ldict
    THEN Return(Overwrite(c, key, obj), None)
    ELSE LET full == Full(c)
             r == _remove_item(c, Victim(c))
             new_item == _LRUCacheLink(c)
             c0 == IF full THEN Collect(r.self) ELSE c
             c1 == [c0 EXCEPT !.obj = SetSlot(c0.obj, new_item, obj)]
             c2 == [c1 EXCEPT !.key = SetSlot(c1.key, new_item, key)]
             c3 == _link_item_as_top(c2, new_item)
             c4 == [c3 EXCEPT !._ldict = DictSet(c3._ldict, key, new_item)]
         IN  IF full /\ r.exc # NoExc THEN r ELSE Return(c4, None)

\* Both of the smallest size, which any three keys overfill.
PairInit ==
    /\ cache = LRUCache(MinSize).self
    /\ fresh = LRUCache(MinSize)
    /\ tcache = None
    /\ now = 0
    /\ call = Called("__init__", <<>>, cache)
    /\ outcome = Outcome(Return(None, None))
    /\ recency = <<>>
    /\ gets = 0
    /\ threads = None
    /\ lock = None

\* cache[key] = obj, on both
PairSetItem(key, obj) ==
    LET r == __setitem__(cache, key, obj)
    IN  /\ cache' = r.self
        /\ fresh' = __setitem__allocating(fresh.self, key, obj)
        /\ call' = Called("__setitem__", <<key, obj>>, cache)
        /\ outcome' = Outcome(r)
        /\ recency' = Live(Stored(recency, key, obj), r.self)
        /\ UNCHANGED <<tcache, now, gets, threads, lock>>

\* cache[key], on both
PairGetItem(key) ==
    LET r == __getitem__(cache, key)
    IN  /\ cache' = r.self
        /\ fresh' = __getitem__(fresh.self, key)
        /\ call' = Called("__getitem__", <<key>>, cache)
        /\ outcome' = Outcome(r)
        /\ recency' = Live(IF r.exc = NoExc THEN Touch(recency, key) ELSE recency, r.self)
        /\ UNCHANGED <<tcache, now, gets, threads, lock>>

\* cache.pop(key), on both
PairPop(key) ==
    LET r == pop(cache, key)
    IN  /\ cache' = r.self
        /\ fresh' = pop(fresh.self, key)
        /\ call' = Called("pop", <<key>>, cache)
        /\ outcome' = Outcome(r)
        /\ recency' = Live(recency, r.self)
        /\ UNCHANGED <<tcache, now, gets, threads, lock>>

PairNext ==
    \/ \E key \in Keys, obj \in Values : PairSetItem(key, obj)
    \/ \E key \in Keys : PairGetItem(key)
    \/ \E key \in Keys : PairPop(key)

PairSpec == PairInit /\ [][PairNext]_vars

\* The link that the last call, a __setitem__ of a key not stored into a full
\* cache, has reused carries the new key and object and the links of the top
\* position, and is not the anchor.
ReusedLinkIsClean ==
    (call.op = "__setitem__" /\ ~call.had /\ call.len = cache._size) =>
        LET item == cache._ldict[call.args[1]]
        IN  /\ item # cache._anchor
            /\ cache.key[item] = call.args[1]
            /\ cache.obj[item] = call.args[2]
            /\ cache.right[cache._anchor] = item
            /\ cache.left[item] = cache._anchor
            /\ cache.left[cache.right[item]] = item
            /\ cache.key[cache._anchor] = ANCHOR
            /\ Len(RightWalk(cache)) = cache._size

\* C19. Node reuse is unobservable: a cache that reuses the removed link on
\* eviction and one that takes a new link, given the same calls, return and
\* raise the same, and have the same len, keys, dict_copy and listing after
\* every call; the reused link carries nothing of the entry removed, and is
\* never the anchor.
C19_ReuseUnobservable ==
    /\ outcome = Outcome(fresh)
    /\ __len__(cache) = __len__(fresh.self)
    /\ keys(cache) = keys(fresh.self)
    /\ dict_copy(cache) = dict_copy(fresh.self)
    /\ __repr__(cache) = __repr__(fresh.self)
    /\ [i \in 1..Len(RightWalk(cache)) |-> cache.key[RightWalk(cache)[i]]]
          = [i \in 1..Len(RightWalk(fresh.self)) |-> fresh.self.key[RightWalk(fresh.self)[i]]]
    /\ MapRingAgree(cache)
    /\ ReusedLinkIsClean

\* A __setitem__ of a new key into a full cache: the one cache has reused the
\* removed link where the other has taken a new one.
C19_Witness ==
    /\ call.op = "__setitem__"
    /\ ~call.had
    /\ call.len = cache._size
    /\ cache._ldict[call.args[1]] # fresh.self._ldict[call.args[1]]

----------------------------------------------------------------------------
(* Two threads calling __setitem__, __getitem__ and __delitem__ on one     *)
(* LRUCache.  A thread is switched between statements: each step runs one   *)
(* line of lrucache.py; th holds the call's local variables and the line   *)
(* it is at (s: __setitem__, m: _move_to_top, l: _link_item_as_top,        *)
(* r: _remove_item, followed by the line number).                          *)

Threads == {1, 2}

\* A local variable that has not been assigned.
Unbound == -1

Idle ==
    [pc |-> "idle", op |-> "", key |-> ANCHOR, rkey |-> ANCHOR, obj |-> "",
     item |-> Unbound, l_item |-> Unbound, r_item |-> Unbound,
     anchor_r |-> Unbound, new_item |-> Unbound, caller |-> "", exc |-> NoExc]

\* The call of th has returned, or raised exc: its locals are gone.
Done(th, exc) ==
    [Idle EXCEPT !.pc = "done", !.op = th.op, !.key = th.key, !.exc = exc]

\* The links some local variable of a thread refers to.
Held(ths) ==
    UNION {{ths[t].item, ths[t].l_item, ths[t].r_item, ths[t].anchor_r,
            ths[t].new_item} : t \in DOMAIN ths}

\* _LRUCacheLink() while calls are in progress: an identity that neither the
\* cache nor a local variable refers to.
ThreadLink(c, ths) ==
    LET used == DOMAIN c.left \cup DOMAIN c.right \cup DOMAIN c.key
                    \cup DOMAIN c.obj \cup Held(ths)
    IN  CHOOSE l \in Links \ used : \A m \in Links \ used : l <= m

\* _link_item_as_top, were line 94 (anchor_r.left = item) left out.
LinkLine_without_94(c, th) ==
    LET anchor == c._anchor
    IN  CASE th.pc = "l91" ->
               [self |-> c, th |-> [th EXCEPT !.anchor_r = c.right[anchor], !.pc = "l92"]]
          [] th.pc = "l92" ->
               [self |-> [c EXCEPT !.left = SetSlot(c.left, th.item, anchor)],
                th |-> [th EXCEPT !.pc = "l93"]]
          [] th.pc = "l93" ->
               [self |-> [c EXCEPT !.right = SetSlot(c.right, th.item, th.anchor_r)],
                th |-> [th EXCEPT !.pc = "l95"]]
          [] th.pc = "l94" ->
               [self |-> [c EXCEPT !.left = SetSlot(c.left, th.anchor_r, th.item)],
                th |-> [th EXCEPT !.pc = "l95"]]
          [] th.pc = "l95" ->
               [self |-> [c EXCEPT !.right = SetSlot(c.right, anchor, th.item)],
                th |-> [th EXCEPT !.pc = IF th.caller = "m85" THEN "m86" ELSE "s76"]]

\* LRUCache._link_item_as_top(item), line by line; it returns into
\* _move_to_top (line 86) or into __setitem__ (line 76).
LinkLine(c, th) ==
    LET anchor == c._anchor
    IN  CASE th.pc = "l91" ->
               [self |-> c, th |-> [th EXCEPT !.anchor_r = c.right[anchor], !.pc = "l92"]]
          [] th.pc = "l92" ->
               [self |-> [c EXCEPT !.left = SetSlot(c.left, th.item, anchor)],
                th |-> [th EXCEPT !.pc = "l93"]]
          [] th.pc = "l93" ->
               [self |-> [c EXCEPT !.right = SetSlot(c.right, th.item, th.anchor_r)],
                th |-> [th EXCEPT !.pc = "l94"]]
          [] th.pc = "l94" ->
               [self |-> [c EXCEPT !.left = SetSlot(c.left, th.anchor_r, th.item)],
                th |-> [th EXCEPT !.pc = "l95"]]
          [] th.pc = "l95" ->
               [self |-> [c EXCEPT !.right = SetSlot(c.right, anchor, th.item)],
                th |-> [th EXCEPT !.pc = IF th.caller = "m85" THEN "m86" ELSE "s76"]]

\* LRUCache._move_to_top(key), line by line; line 85 enters
\* _link_item_as_top, line 86 returns into __getitem__ or __setitem__.
MoveLine(c, th) ==
    CASE th.pc = "m80" ->
           IF th.key \in DOMAIN c._ldict
           THEN [self |-> c, th |-> [th EXCEPT !.item = c._ldict[th.key], !.pc = "m81"]]
           ELSE [self |-> c, th |-> Done(th, KeyError)]
      [] th.pc = "m81" ->
           [self |-> c, th |-> [th EXCEPT !.l_item = c.left[th.item], !.pc = "m82"]]
      [] th.pc = "m82" ->
           [self |-> c, th |-> [th EXCEPT !.r_item = c.right[th.item], !.pc = "m83"]]
      [] th.pc = "m83" ->
           [self |-> [c EXCEPT !.right = SetSlot(c.right, th.l_item, th.r_item)],
            th |-> [th EXCEPT !.pc = "m84"]]
      [] th.pc = "m84" ->
           [self |-> [c EXCEPT !.left = SetSlot(c.left, th.r_item, th.l_item)],
            th |-> [th EXCEPT !.pc = "l91", !.caller = "m85"]]
      [] th.pc = "m86" ->
           [self |-> c,
            th |-> IF th.op = "__getitem__"
                   THEN Done(th, NoExc)
                   ELSE [th EXCEPT !.pc = "s66"]]

\* LRUCache._remove_item(key), line by line; line 104 returns to the caller of
\* __delitem__ or into __setitem__, line 70, which binds new_item.
RemoveLine(c, th) ==
    CASE th.pc = "r99" ->
           IF th.rkey \in DOMAIN c._ldict
           THEN [self |-> [c EXCEPT !._ldict = DictPop(c._ldict, th.rkey)],
                 th |-> [th EXCEPT !.item = c._ldict[th.rkey], !.pc = "r100"]]
           ELSE [self |-> c, th |-> Done(th, KeyError)]
      [] th.pc = "r100" ->
           [self |-> c, th |-> [th EXCEPT !.l_item = c.left[th.item], !.pc = "r101"]]
      [] th.pc = "r101" ->
           [self |-> c, th |-> [th EXCEPT !.r_item = c.right[th.item], !.pc = "r102"]]
      [] th.pc = "r102" ->
           [self |-> [c EXCEPT !.right = SetSlot(c.right, th.l_item, th.r_item)],
            th |-> [th EXCEPT !.pc = "r103"]]
      [] th.pc = "r103" ->
           [self |-> [c EXCEPT !.left = SetSlot(c.left, th.r_item, th.l_item)],
            th |-> IF th.op = "__delitem__"
                   THEN Done(th, NoExc)
                   ELSE [th EXCEPT !.new_item = th.item, !.pc = "s73"]]

\* LRUCache.__setitem__(key, obj), line by line; line 65 enters _move_to_top,
\* line 70 _remove_item, line 75 _link_item_as_top.
SetItemLine(c, th, ths) ==
    CASE th.pc = "s63" ->
           [self |-> c,
            th |-> [th EXCEPT !.pc = IF th.key \in DOMAIN c._ldict THEN "m80" ELSE "s68"]]
      [] th.pc = "s66" ->
           [self |-> [c EXCEPT !.obj = SetSlot(c.obj, th.item, th.obj)],
            th |-> Done(th, NoExc)]
      [] th.pc = "s68" ->
           [self |-> c, th |-> [th EXCEPT !.pc = IF Full(c) THEN "s70" ELSE "s72"]]
      [] th.pc = "s70" ->
           [self |-> c, th |-> [th EXCEPT !.rkey = Victim(c), !.pc = "r99"]]
      [] th.pc = "s72" ->
           [self |-> c, th |-> [th EXCEPT !.new_item = ThreadLink(c, ths), !.pc = "s73"]]
      [] th.pc = "s73" ->
           [self |-> [c EXCEPT !.obj = SetSlot(c.obj, th.new_item, th.obj)],
            th |-> [th EXCEPT !.pc = "s74"]]
      [] th.pc = "s74" ->
           [self |-> [c EXCEPT !.key = SetSlot(c.key, th.new_item, th.key)],
            th |-> [th EXCEPT !.item = th.new_item, !.pc = "l91", !.caller = "s75"]]
      [] th.pc = "s76" ->
           [self |-> [c EXCEPT !._ldict = DictSet(c._ldict, th.key, th.new_item)],
            th |-> Done(th, NoExc)]

\* The line thread th is at, run on the cache c.
Exec(c, th, ths) ==
    IF th.pc \in {"s63", "s66", "s68", "s70", "s72", "s73", "s74", "s76"}
    THEN SetItemLine(c, th, ths)
    ELSE IF th.pc \in {"m80", "m81", "m82", "m83", "m84", "m86"}
    THEN MoveLine(c, th)
    ELSE IF th.pc \in {"l91", "l92", "l93", "l94", "l95"}
    THEN LinkLine(c, th)
    ELSE RemoveLine(c, th)

\* The first line of each method.
Entry(op) ==
    CASE op = "__setitem__" -> "s63"
      [] op = "__getitem__" -> "m80"
      [] op = "__delitem__" -> "r99"

\* The cache after cache[1] = "a", ..., cache[n] = "a".
RECURSIVE Filled(_, _)
Filled(c, n) == IF n = 0 THEN c ELSE __setitem__(Filled(c, n - 1), n, "a").self

\* No call is in progress.
Quiescent == \A t \in Threads : threads[t].pc \in {"idle", "done"}

\* A cache of the smallest size holding up to that many keys; the callers
\* either put every call under one lock, or use none.
ThreadInit ==
    /\ \E n \in 0..MinSize : cache = Filled(LRUCache(MinSize).self, n)
    /\ \E used \in BOOLEAN : lock = [used |-> used, holder |-> 0]
    /\ threads = [t \in Threads |-> Idle]
    /\ tcache = None
    /\ now = 0
    /\ call = Called("__init__", <<>>, cache)
    /\ outcome = Outcome(Return(None, None))
    /\ recency = <<>>
    /\ gets = 0
    /\ fresh = None

\* Thread t calls op on key; with a lock in use, it takes the lock first.
ThreadCall(t, op, key) ==
    /\ threads[t].pc = "idle"
    /\ lock.used => lock.holder = 0
    /\ threads' = [threads EXCEPT ![t] =
                      [Idle EXCEPT !.pc = Entry(op), !.op = op, !.key = key,
                                   !.rkey = key, !.obj = "b"]]
    /\ lock' = IF lock.used THEN [lock EXCEPT !.holder = t] ELSE lock
    /\ UNCHANGED <<cache, tcache, now, call, outcome, recency, gets, fresh>>

\* Thread t runs the line it is at; with a lock in use, it releases the lock
\* when its call returns or raises.
ThreadStep(t) ==
    LET r == Exec(cache, threads[t], threads)
    IN  /\ threads[t].pc \notin {"idle", "done"}
        /\ cache' = r.self
        /\ threads' = [threads EXCEPT ![t] = r.th]
        /\ lock' = IF lock.used /\ r.th.pc = "done"
                   THEN [lock EXCEPT !.holder = 0]
                   ELSE lock
        /\ UNCHANGED <<tcache, now, call, outcome, recency, gets, fresh>>

ThreadNext ==
    \/ \E t \in Threads, key \in Keys :
          \E op \in {"__setitem__", "__getitem__", "__delitem__"} : ThreadCall(t, op, key)
    \/ \E t \in Threads : ThreadStep(t)

ThreadSpec == ThreadInit /\ [][ThreadNext]_vars

\* What holds of an LRUCache between calls.
StoreInvariants(c) == MapRingAgree(c) /\ __len__(c) <= c._size

\* C20. Not safe without external locking: when the callers put every call
\* under one lock, so that each runs to completion before the next starts, at
\* most one call is in progress and the dictionary/ring agreement and
\* len <= size hold whenever none is; without the lock, two threads whose
\* lines interleave reach a state between calls where they do not hold.
C20_SafeOnlyUnderLock ==
    lock.used =>
        /\ Cardinality({t \in Threads : threads[t].pc \notin {"idle", "done"}}) <= 1
        /\ lock.holder # 0 <=> ~Quiescent
        /\ Quiescent => StoreInvariants(cache)

\* With no lock, two threads have each completed a __setitem__ of a key that
\* was not stored, and the cache holds more keys than its size.
C20_Witness ==
    /\ ~lock.used
    /\ \A t \in Threads :
          /\ threads[t].pc = "done"
          /\ threads[t].op = "__setitem__"
          /\ threads[t].exc = NoExc
    /\ __len__(cache) > cache._size

====
